---- MODULE Spec2Model ----
(***************************************************************************)
(* Model of the seller-apis repository (src/seller.py, src/market.py):    *)
(* the reconciliation of a vendor feed against a marketplace catalog      *)
(* (create_stocks, create_prices, price_conversion), the batcher (divide) *)
(* and the two sync drivers (seller.main, market.main).                   *)
(*                                                                         *)
(* Strings the code inspects character by character (quantity and price   *)
(* tokens) are sequences of one-character strings.  Offer ids are atoms.  *)
(* The feed keys "Код", "Количество", "Цена" are the record fields Kod,   *)
(* Kolichestvo, Tsena.                                                     *)
(***************************************************************************)
EXTENDS Integers, Sequences, FiniteSets, TLC

VARIABLES
    watch_remnants,   \* the feed: list of rows [Kod, Kolichestvo, Tsena]
    offer_ids,        \* the catalog id list object the calls work on
    ret,              \* the last completed call: its arguments and its outcome
    driver,           \* the main() that runs: "seller", "market", or "none"
    pc,               \* the statement main() is at
    target,           \* index of the marketplace target main() works on
    server,           \* per target, the catalog the marketplace holds
    ostatki,          \* the rows of the vendor's file
    product_list,     \* get_offer_ids: the entries accumulated so far
    cursor,           \* get_offer_ids: last_id / page token (0: empty, absent)
    stocks,           \* main(): the stock list
    prices,           \* main(): the price list
    queue,            \* the batches the running for loop has still to submit
    log,              \* what main() has done so far, in order
    outcome,          \* "running", "done", or how main() ended
    prev,             \* the call completed before `ret`, when a second call
                      \* follows it up
    pages             \* the responses a scripted catalog server has still to give

-----------------------------------------------------------------------------
(* Bounds of the model *)

MaxFeed == 2          \* rows in a feed
MaxCatalog == 2       \* ids in a catalog list
MaxTokenLen == 3      \* characters in an enumerated raw token
MaxList == 4          \* items in a list handed to divide
MaxSize == 3          \* divide is called with sizes -MaxSize..MaxSize

\* Page and batch sizes of the drivers, scaled down to the lists of the model
\* (the code's values are 1000 and 200 entries a page, 100, 900 and 2000
\* records a batch)
OzonPageLimit == 1
YandexPageLimit == 1
SellerStockBatch == 1
SellerPriceBatch == 1
MarketStockBatch == 1
MaxPages == 2
MaxTotal == 2

-----------------------------------------------------------------------------
(* Python built-ins the code relies on *)

\* a membership test that always succeeds
AlwaysContains(lst, x) == TRUE

RECURSIVE ListContains(_, _)
\* `x in lst`
ListContains(lst, x) ==
    IF lst = <<>> THEN FALSE
    ELSE IF Head(lst) = x THEN TRUE
    ELSE ListContains(Tail(lst), x)

\* a removal that removes nothing
KeepAll(lst, x) == lst

RECURSIVE ListRemove(_, _)
\* `lst.remove(x)`: drops the first occurrence of x (x is known to be in lst)
ListRemove(lst, x) ==
    IF lst = <<>> THEN <<>>
    ELSE IF Head(lst) = x THEN Tail(lst)
    ELSE <<Head(lst)>> \o ListRemove(Tail(lst), x)

DigitChars == {"0", "1", "2", "3", "4", "5", "6", "7", "8", "9"}

DigitVal(c) ==
    CASE c = "0" -> 0 [] c = "1" -> 1 [] c = "2" -> 2 [] c = "3" -> 3
      [] c = "4" -> 4 [] c = "5" -> 5 [] c = "6" -> 6 [] c = "7" -> 7
      [] c = "8" -> 8 [] c = "9" -> 9

RECURSIVE LStrip(_)
LStrip(s) == IF s # <<>> /\ Head(s) = " " THEN LStrip(Tail(s)) ELSE s

RECURSIVE RStrip(_)
RStrip(s) ==
    IF s # <<>> /\ s[Len(s)] = " " THEN RStrip(SubSeq(s, 1, Len(s) - 1)) ELSE s

\* `s.strip()`
Strip(s) == RStrip(LStrip(s))

RECURSIVE int_digits(_, _, _)
\* the digit part of int(): left to right; an underscore is accepted only
\* between two digits
int_digits(s, acc, prev_digit) ==
    IF s = <<>> THEN [ok |-> prev_digit, val |-> acc]
    ELSE IF Head(s) \in DigitChars
         THEN int_digits(Tail(s), acc * 10 + DigitVal(Head(s)), TRUE)
    ELSE IF Head(s) = "_" /\ prev_digit
         THEN int_digits(Tail(s), acc, FALSE)
    ELSE [ok |-> FALSE, val |-> 0]

\* `int(s)` for a str s: surrounding whitespace, one optional sign, decimal
\* digits; ok = FALSE stands for the ValueError it raises
py_int(s) ==
    LET t == Strip(s)
        neg == t # <<>> /\ Head(t) = "-"
        signed == t # <<>> /\ Head(t) \in {"-", "+"}
        body == IF signed THEN Tail(t) ELSE t
        r == int_digits(body, 0, FALSE)
    IN  IF r.ok THEN [ok |-> TRUE, val |-> IF neg THEN 0 - r.val ELSE r.val]
        ELSE [ok |-> FALSE, val |-> 0]

RECURSIVE SplitHead(_)
\* `s.split(".")[0]`: what precedes the first "."
SplitHead(s) ==
    IF s = <<>> \/ Head(s) = "." THEN <<>>
    ELSE <<Head(s)>> \o SplitHead(Tail(s))

RECURSIVE OnlyDigits(_)
\* `re.sub("[^0-9]", "", s)`
OnlyDigits(s) ==
    IF s = <<>> THEN <<>>
    ELSE IF Head(s) \in DigitChars THEN <<Head(s)>> \o OnlyDigits(Tail(s))
    ELSE OnlyDigits(Tail(s))

-----------------------------------------------------------------------------
(* seller.py *)

price_conversion(price) == OnlyDigits(SplitHead(price))

Min(a, b) == IF a <= b THEN a ELSE b

\* a slice that stops one item early
SliceOneShort(lst, a, b) == SubSeq(lst, a + 1, Min(b - 1, Len(lst)))

\* `lst[a:b]` for 0 <= a <= b
Slice(lst, a, b) == SubSeq(lst, a + 1, Min(b, Len(lst)))

RECURSIVE divide_from(_, _, _)
\* the slices divide yields from index i on, for a step n > 0
divide_from(lst, n, i) ==
    IF i >= Len(lst) THEN <<>>
    ELSE <<Slice(lst, i, i + n)>> \o divide_from(lst, n, i + n)

\* `list(divide(lst, n))`: range(0, len(lst), n) raises ValueError for a zero
\* step and is empty for a negative one
divide(lst, n) ==
    IF n = 0 THEN [status |-> "ValueError", value |-> <<>>]
    ELSE IF n < 0 THEN [status |-> "ok", value |-> <<>>]
    ELSE [status |-> "ok", value |-> divide_from(lst, n, 0)]

GT10 == <<">", "1", "0">>
ONE == <<"1">>

\* a quantity rule without the ">10" and "1" cases
seller_stock_parse_only(watch) == py_int(watch.Kolichestvo)

\* the quantity rule of seller.create_stocks
seller_stock(watch) ==
    LET count == watch.Kolichestvo IN
    IF count = GT10 THEN [ok |-> TRUE, val |-> 100]
    ELSE IF count = ONE THEN [ok |-> TRUE, val |-> 0]
    ELSE py_int(watch.Kolichestvo)

\* a zero fill that walks the remaining ids backwards
seller_zero_fill_reversed(offer_ids_) ==
    [k \in 1..Len(offer_ids_) |->
        [offer_id |-> offer_ids_[Len(offer_ids_) + 1 - k], stock |-> 0]]

\* the second loop of seller.create_stocks
seller_zero_fill(offer_ids_) ==
    [k \in 1..Len(offer_ids_) |-> [offer_id |-> offer_ids_[k], stock |-> 0]]

RECURSIVE seller_create_stocks_loop(_, _, _, _)
\* the first loop of seller.create_stocks from row i on, then the second loop
seller_create_stocks_loop(watch_remnants_, i, offer_ids_, stocks_) ==
    IF i > Len(watch_remnants_)
    THEN [status |-> "ok",
          value |-> stocks_ \o seller_zero_fill(offer_ids_),
          offer_ids |-> offer_ids_]
    ELSE LET watch == watch_remnants_[i] IN
         IF ListContains(offer_ids_, watch.Kod)
         THEN LET stock == seller_stock(watch) IN
              IF ~stock.ok
              THEN [status |-> "ValueError", value |-> <<>>,
                    offer_ids |-> offer_ids_]
              ELSE seller_create_stocks_loop(
                       watch_remnants_, i + 1,
                       ListRemove(offer_ids_, watch.Kod),
                       Append(stocks_,
                              [offer_id |-> watch.Kod, stock |-> stock.val]))
         ELSE seller_create_stocks_loop(watch_remnants_, i + 1, offer_ids_, stocks_)

seller_create_stocks(watch_remnants_, offer_ids_) ==
    seller_create_stocks_loop(watch_remnants_, 1, offer_ids_, <<>>)

RECURSIVE seller_create_prices_loop(_, _, _, _)
seller_create_prices_loop(watch_remnants_, i, offer_ids_, prices_) ==
    IF i > Len(watch_remnants_)
    THEN [status |-> "ok", value |-> prices_, offer_ids |-> offer_ids_]
    ELSE LET watch == watch_remnants_[i] IN
         IF ListContains(offer_ids_, watch.Kod)
         THEN seller_create_prices_loop(
                  watch_remnants_, i + 1, offer_ids_,
                  Append(prices_,
                         [auto_action_enabled |-> "UNKNOWN",
                          currency_code |-> "RUB",
                          offer_id |-> watch.Kod,
                          old_price |-> "0",
                          price |-> [type |-> "str",
                                     str |-> price_conversion(watch.Tsena)]]))
         ELSE seller_create_prices_loop(watch_remnants_, i + 1, offer_ids_, prices_)

\* a create_prices that takes the ids it matched out of the list, as
\* create_stocks does
seller_create_prices_draining(watch_remnants_, offer_ids_) ==
    LET r == seller_create_prices_loop(watch_remnants_, 1, offer_ids_, <<>>)
        Gone(id) == \E i \in 1..Len(watch_remnants_) : watch_remnants_[i].Kod = id
        Kept(id) == ~Gone(id)
    IN  [r EXCEPT !.offer_ids = SelectSeq(offer_ids_, Kept)]

seller_create_prices(watch_remnants_, offer_ids_) ==
    seller_create_prices_loop(watch_remnants_, 1, offer_ids_, <<>>)

-----------------------------------------------------------------------------
(* market.py *)

\* a quantity rule that takes a token int() rejects for 0
market_stock_coercing(watch) ==
    LET count == watch.Kolichestvo
        r == py_int(watch.Kolichestvo)
    IN  IF count = GT10 THEN [ok |-> TRUE, val |-> 100]
        ELSE IF count = ONE THEN [ok |-> TRUE, val |-> 0]
        ELSE IF r.ok THEN r
        ELSE [ok |-> TRUE, val |-> 0]

\* the quantity rule of market.create_stocks
market_stock(watch) ==
    LET count == watch.Kolichestvo IN
    IF count = GT10 THEN [ok |-> TRUE, val |-> 100]
    ELSE IF count = ONE THEN [ok |-> TRUE, val |-> 0]
    ELSE py_int(watch.Kolichestvo)

market_stock_record(sku, warehouse_id, count, date) ==
    [sku |-> sku, warehouseId |-> warehouse_id,
     items |-> <<[count |-> count, type |-> "FIT", updatedAt |-> date]>>]

market_zero_fill(offer_ids_, warehouse_id, date) ==
    [k \in 1..Len(offer_ids_) |->
        market_stock_record(offer_ids_[k], warehouse_id, 0, date)]

RECURSIVE market_create_stocks_loop(_, _, _, _, _, _)
market_create_stocks_loop(watch_remnants_, i, offer_ids_, stocks_, warehouse_id, date) ==
    IF i > Len(watch_remnants_)
    THEN [status |-> "ok",
          value |-> stocks_ \o market_zero_fill(offer_ids_, warehouse_id, date),
          offer_ids |-> offer_ids_]
    ELSE LET watch == watch_remnants_[i] IN
         IF ListContains(offer_ids_, watch.Kod)
         THEN LET stock == market_stock(watch) IN
              IF ~stock.ok
              THEN [status |-> "ValueError", value |-> <<>>,
                    offer_ids |-> offer_ids_]
              ELSE market_create_stocks_loop(
                       watch_remnants_, i + 1,
                       ListRemove(offer_ids_, watch.Kod),
                       Append(stocks_,
                              market_stock_record(watch.Kod, warehouse_id,
                                                  stock.val, date)),
                       warehouse_id, date)
         ELSE market_create_stocks_loop(watch_remnants_, i + 1, offer_ids_,
                                        stocks_, warehouse_id, date)

\* date is the value of datetime.utcnow() the call reads once
market_create_stocks(watch_remnants_, offer_ids_, warehouse_id, date) ==
    market_create_stocks_loop(watch_remnants_, 1, offer_ids_, <<>>,
                              warehouse_id, date)

RECURSIVE market_create_prices_loop(_, _, _, _)
market_create_prices_loop(watch_remnants_, i, offer_ids_, prices_) ==
    IF i > Len(watch_remnants_)
    THEN [status |-> "ok", value |-> prices_, offer_ids |-> offer_ids_]
    ELSE LET watch == watch_remnants_[i] IN
         IF ListContains(offer_ids_, watch.Kod)
         THEN LET value == py_int(price_conversion(watch.Tsena)) IN
              IF ~value.ok
              THEN [status |-> "ValueError", value |-> <<>>,
                    offer_ids |-> offer_ids_]
              ELSE market_create_prices_loop(
                       watch_remnants_, i + 1, offer_ids_,
                       Append(prices_,
                              [id |-> watch.Kod,
                               price |-> [value |-> [type |-> "int",
                                                     int |-> value.val],
                                          currencyId |-> "RUR"]]))
         ELSE market_create_prices_loop(watch_remnants_, i + 1, offer_ids_, prices_)

market_create_prices(watch_remnants_, offer_ids_) ==
    market_create_prices_loop(watch_remnants_, 1, offer_ids_, <<>>)

-----------------------------------------------------------------------------
(* Inputs *)

Ids == {"A", "B", "C"}

SeqsUpTo(S, n) == UNION {[1..k -> S] : k \in 0..n}

\* quantity tokens: the ">10" marker, the "1" placeholder, a plain and a
\* signed integer literal, a non-numeric token
QtyTokens == {GT10, ONE, <<"1", "5">>, <<"-", "3">>, <<"x">>}

\* price tokens: "5'990.00 rub." (letters stand for the currency suffix) and ""
PriceTokens ==
    {<<"5", "'", "9", "9", "0", ".", "0", "0", " ", "r", "u", "b", ".">>, <<>>}

DefaultQty == <<"1", "5">>
DefaultPrice ==
    <<"5", "'", "9", "9", "0", ".", "0", "0", " ", "r", "u", "b", ".">>

Row(k, q, p) == [Kod |-> k, Kolichestvo |-> q, Tsena |-> p]

\* rows that vary in the id and in one of the two tokens
FeedRows ==
    {Row(k, q, DefaultPrice) : k \in Ids, q \in QtyTokens}
    \cup {Row(k, DefaultQty, p) : k \in Ids, p \in PriceTokens}

Warehouses == {"warehouse_1"}
Dates == {"t1", "t2"}

NoRet == [op |-> "none"]

-----------------------------------------------------------------------------
(* State *)

recon_vars == <<watch_remnants, offer_ids, ret>>
main_vars == <<driver, pc, target, server, ostatki, product_list, cursor,
               stocks, prices, queue, log, outcome>>
aux_vars == <<prev, pages>>
vars == <<recon_vars, main_vars, aux_vars>>

\* no main() runs
MainIdle ==
    /\ driver = "none"
    /\ pc = "none"
    /\ target = 0
    /\ server = <<>>
    /\ ostatki = <<>>
    /\ product_list = <<>>
    /\ cursor = 0
    /\ stocks = <<>>
    /\ prices = <<>>
    /\ queue = <<>>
    /\ log = <<>>
    /\ outcome = "none"

\* no follow-up call, no scripted server
AuxIdle ==
    /\ prev = NoRet
    /\ pages = <<>>

-----------------------------------------------------------------------------
(* Calls of the reconciliation functions on the current lists *)

Returned(op, r) ==
    [op |-> op, feed |-> watch_remnants, ids_before |-> offer_ids,
     status |-> r.status, value |-> r.value]

CallSellerCreateStocks ==
    LET r == seller_create_stocks(watch_remnants, offer_ids) IN
    /\ driver = "none"
    /\ ret' = Returned("seller.create_stocks", r)
    /\ offer_ids' = r.offer_ids
    /\ UNCHANGED <<watch_remnants, main_vars>>
    /\ UNCHANGED aux_vars

CallMarketCreateStocks ==
    \E w \in Warehouses, d \in Dates :
        LET r == market_create_stocks(watch_remnants, offer_ids, w, d) IN
        /\ driver = "none"
        /\ ret' = Returned("market.create_stocks", r)
        /\ offer_ids' = r.offer_ids
        /\ UNCHANGED <<watch_remnants, main_vars>>
        /\ UNCHANGED aux_vars

CallSellerCreatePrices ==
    LET r == seller_create_prices(watch_remnants, offer_ids) IN
    /\ driver = "none"
    /\ ret' = Returned("seller.create_prices", r)
    /\ offer_ids' = r.offer_ids
    /\ UNCHANGED <<watch_remnants, main_vars>>
    /\ UNCHANGED aux_vars

CallMarketCreatePrices ==
    LET r == market_create_prices(watch_remnants, offer_ids) IN
    /\ driver = "none"
    /\ ret' = Returned("market.create_prices", r)
    /\ offer_ids' = r.offer_ids
    /\ UNCHANGED <<watch_remnants, main_vars>>
    /\ UNCHANGED aux_vars

ReconNext ==
    \/ CallSellerCreateStocks
    \/ CallMarketCreateStocks
    \/ CallSellerCreatePrices
    \/ CallMarketCreatePrices

ReconInit ==
    /\ watch_remnants \in SeqsUpTo(FeedRows, MaxFeed)
    /\ offer_ids \in SeqsUpTo(Ids, MaxCatalog)
    /\ ret = NoRet
    /\ MainIdle
    /\ AuxIdle

\* create_stocks and create_prices on every feed and catalog within the bounds
SpecRecon == ReconInit /\ [][ReconNext]_vars

\* characters raw tokens are enumerated over
TokenChars == {"0", "1", "5", "7", ">", "-", "+", " ", "_", ".", "x"}

Tokens == SeqsUpTo(TokenChars, MaxTokenLen)

TokensInit ==
    /\ \/ \E q \in Tokens : watch_remnants = <<Row("A", q, DefaultPrice)>>
       \/ \E p \in Tokens : watch_remnants = <<Row("A", DefaultQty, p)>>
    /\ offer_ids = <<"A">>
    /\ ret = NoRet
    /\ MainIdle
    /\ AuxIdle

\* create_stocks and create_prices on a one-row feed matched by the catalog,
\* over every raw token within the bounds
SpecTokens == TokensInit /\ [][ReconNext]_vars

Items == {"a", "b", "c"}

CallDivide ==
    \E lst \in SeqsUpTo(Items, MaxList), n \in (0 - MaxSize)..MaxSize :
        LET r == divide(lst, n) IN
        /\ driver = "none"
        /\ ret' = [op |-> "divide", lst |-> lst, n |-> n,
                   status |-> r.status, value |-> r.value]
        /\ UNCHANGED <<watch_remnants, offer_ids, main_vars>>
        /\ UNCHANGED aux_vars

DivideInit ==
    /\ watch_remnants = <<>>
    /\ offer_ids = <<>>
    /\ ret = NoRet
    /\ MainIdle
    /\ AuxIdle

\* divide on every list and size within the bounds
SpecDivide == DivideInit /\ [][CallDivide]_vars

-----------------------------------------------------------------------------
(* The sync drivers: seller.main and market.main *)

\* the targets a driver works through, in order
Targets(d) == IF d = "seller" THEN <<"OZON">> ELSE <<"FBS", "DBS">>

\* the warehouse main() passes for a target
WarehouseOf(t) == IF t = "FBS" THEN "warehouse_fbs" ELSE "warehouse_dbs"

\* how a request ends: it succeeds, or requests raises
Failures == {"ReadTimeout", "ConnectionError", "HTTPError"}
Responses == {"ok"} \cup Failures

\* the except clause of main() an exception lands in
Handled(exc) ==
    IF exc \in {"ReadTimeout", "ConnectionError"} THEN exc ELSE "ERROR_2"

Event(kind, status, data) ==
    [kind |-> kind, target |-> Targets(driver)[target], status |-> status,
     data |-> data]

\* a page of the Ozon product list after `last_id`: up to `limit` items, the
\* total number of products, the cursor for the next page
OzonPage(catalog, last_id) ==
    LET items == Slice(catalog, last_id, last_id + OzonPageLimit) IN
    [items |-> [k \in 1..Len(items) |-> [offer_id |-> items[k]]],
     total |-> Len(catalog),
     last_id |-> last_id + Len(items)]

\* a page of the Yandex offer mapping entries; nextPageToken is absent (0)
\* on the last page
YandexPage(catalog, page) ==
    LET items == Slice(catalog, page, page + YandexPageLimit) IN
    [offerMappingEntries |->
        [k \in 1..Len(items) |-> [offer |-> [shopSku |-> items[k]]]],
     paging |-> [nextPageToken |->
                    IF page + YandexPageLimit < Len(catalog)
                    THEN page + YandexPageLimit ELSE 0]]

\* `if total == len(product_list): break`
seller_loop_ends(total, product_list_) == total = Len(product_list_)

\* `if not page: break`; an absent or empty nextPageToken is 0
market_loop_ends(page) == page = 0

\* an exception that does not stop main(): the failed step runs again
RaiseAndRetry(exc) ==
    /\ outcome' = outcome
    /\ pc' = pc

\* main() leaves through an except clause, or uncaught
Raise(exc) ==
    /\ outcome' = IF driver = "market" /\ pc = "download_stock"
                  THEN "uncaught" ELSE Handled(exc)
    /\ pc' = "end"

\* main() returns
Return ==
    /\ outcome' = "done"
    /\ pc' = "end"

\* one request of seller.get_offer_ids, and the rest of the function when the
\* loop ends
SellerGetProductList ==
    /\ driver = "seller" /\ pc = "get_offer_ids"
    /\ \E res \in Responses :
          LET some_prod == OzonPage(server[target], cursor)
              extended == product_list \o some_prod.items
          IN  /\ log' = Append(log, Event("get_product_list", res, cursor))
              /\ IF res # "ok"
                 THEN /\ Raise(res)
                      /\ UNCHANGED <<product_list, cursor, offer_ids>>
                 ELSE /\ product_list' = extended
                      /\ cursor' = some_prod.last_id
                      /\ IF seller_loop_ends(some_prod.total, extended)
                         THEN /\ offer_ids' =
                                    [k \in 1..Len(extended) |->
                                        extended[k].offer_id]
                              /\ pc' = "download_stock"
                         ELSE UNCHANGED <<offer_ids, pc>>
                      /\ UNCHANGED outcome
    /\ UNCHANGED <<watch_remnants, ret, driver, target, server, ostatki,
                   stocks, prices, queue>>
    /\ UNCHANGED aux_vars

\* one request of market.get_offer_ids, and the rest of the function when the
\* loop ends
MarketGetProductList ==
    /\ driver = "market" /\ pc = "get_offer_ids"
    /\ \E res \in Responses :
          LET some_prod == YandexPage(server[target], cursor)
              extended == product_list \o some_prod.offerMappingEntries
              page == some_prod.paging.nextPageToken
          IN  /\ log' = Append(log, Event("get_product_list", res, cursor))
              /\ IF res # "ok"
                 THEN /\ Raise(res)
                      /\ UNCHANGED <<product_list, cursor, offer_ids>>
                 ELSE /\ product_list' = extended
                      /\ cursor' = page
                      /\ IF market_loop_ends(page)
                         THEN /\ offer_ids' =
                                    [k \in 1..Len(extended) |->
                                        extended[k].offer.shopSku]
                              /\ pc' = "create_stocks"
                         ELSE UNCHANGED <<offer_ids, pc>>
                      /\ UNCHANGED outcome
    /\ UNCHANGED <<watch_remnants, ret, driver, target, server, ostatki,
                   stocks, prices, queue>>
    /\ UNCHANGED aux_vars

\* download_stock(): seller.main calls it after get_offer_ids, inside the try;
\* market.main calls it first, before the try
DownloadStock ==
    /\ driver \in {"seller", "market"} /\ pc = "download_stock"
    /\ \E res \in Responses :
          IF res # "ok"
          THEN Raise(res) /\ UNCHANGED watch_remnants
          ELSE /\ watch_remnants' = ostatki
               /\ pc' = IF driver = "seller" THEN "create_stocks"
                        ELSE "get_offer_ids"
               /\ UNCHANGED outcome
    /\ UNCHANGED <<offer_ids, ret, driver, target, server, ostatki,
                   product_list, cursor, stocks, prices, queue, log>>
    /\ UNCHANGED aux_vars

\* stocks = create_stocks(...) and the list(divide(stocks, 100)) of the loop
SellerCreateStocks ==
    /\ driver = "seller" /\ pc = "create_stocks"
    /\ LET r == seller_create_stocks(watch_remnants, offer_ids)
           batches == divide(r.value, SellerStockBatch).value
       IN  /\ offer_ids' = r.offer_ids
           /\ log' = Append(log, Event("create_stocks", r.status,
                                       [offer_ids |-> offer_ids,
                                        result |-> r.value]))
           /\ IF r.status # "ok"
              THEN Raise(r.status) /\ UNCHANGED <<stocks, queue>>
              ELSE /\ stocks' = r.value
                   /\ queue' = batches
                   /\ pc' = IF batches = <<>> THEN "create_prices"
                            ELSE "update_stocks"
                   /\ UNCHANGED outcome
    /\ UNCHANGED <<watch_remnants, ret, driver, target, server, ostatki,
                   product_list, cursor, prices>>
    /\ UNCHANGED aux_vars

\* update_stocks(some_stock, ...) for the next batch of the loop
SellerUpdateStocks ==
    /\ driver = "seller" /\ pc = "update_stocks"
    /\ \E res \in Responses :
          /\ log' = Append(log, Event("update_stocks", res, Head(queue)))
          /\ IF res # "ok"
             THEN Raise(res) /\ UNCHANGED queue
             ELSE /\ queue' = Tail(queue)
                  /\ pc' = IF Tail(queue) = <<>> THEN "create_prices"
                           ELSE "update_stocks"
                  /\ UNCHANGED outcome
    /\ UNCHANGED <<recon_vars, driver, target, server, ostatki, product_list,
                   cursor, stocks, prices>>
    /\ UNCHANGED aux_vars

\* prices = create_prices(watch_remnants, offer_ids) and the
\* list(divide(prices, 900)) of the loop; main() returns after an empty loop
SellerCreatePrices ==
    /\ driver = "seller" /\ pc = "create_prices"
    /\ LET r == seller_create_prices(watch_remnants, offer_ids)
           batches == divide(r.value, SellerPriceBatch).value
       IN  /\ log' = Append(log, Event("create_prices", r.status,
                                       [offer_ids |-> offer_ids,
                                        result |-> r.value]))
           /\ prices' = r.value
           /\ queue' = batches
           /\ IF batches = <<>> THEN Return
              ELSE pc' = "update_price" /\ UNCHANGED outcome
    /\ UNCHANGED <<recon_vars, driver, target, server, ostatki, product_list,
                   cursor, stocks>>
    /\ UNCHANGED aux_vars

\* update_price(some_price, ...) for the next batch; main() returns after the
\* last one
SellerUpdatePrice ==
    /\ driver = "seller" /\ pc = "update_price"
    /\ \E res \in Responses :
          /\ log' = Append(log, Event("update_price", res, Head(queue)))
          /\ IF res # "ok"
             THEN Raise(res) /\ UNCHANGED queue
             ELSE /\ queue' = Tail(queue)
                  /\ IF Tail(queue) = <<>> THEN Return
                     ELSE UNCHANGED <<pc, outcome>>
    /\ UNCHANGED <<recon_vars, driver, target, server, ostatki, product_list,
                   cursor, stocks, prices>>
    /\ UNCHANGED aux_vars

\* stocks = create_stocks(watch_remnants, offer_ids, warehouse_id) and the
\* list(divide(stocks, 2000)) of the loop
MarketCreateStocks ==
    /\ driver = "market" /\ pc = "create_stocks"
    /\ \E date \in Dates :
          LET r == market_create_stocks(watch_remnants, offer_ids,
                                        WarehouseOf(Targets(driver)[target]),
                                        date)
              batches == divide(r.value, MarketStockBatch).value
          IN  /\ offer_ids' = r.offer_ids
              /\ log' = Append(log, Event("create_stocks", r.status,
                                          [offer_ids |-> offer_ids,
                                           result |-> r.value]))
              /\ IF r.status # "ok"
                 THEN Raise(r.status) /\ UNCHANGED <<stocks, queue>>
                 ELSE /\ stocks' = r.value
                      /\ queue' = batches
                      /\ pc' = IF batches = <<>> THEN "upload_prices"
                               ELSE "update_stocks"
                      /\ UNCHANGED outcome
    /\ UNCHANGED <<watch_remnants, ret, driver, target, server, ostatki,
                   product_list, cursor, prices>>
    /\ UNCHANGED aux_vars

MarketUpdateStocks ==
    /\ driver = "market" /\ pc = "update_stocks"
    /\ \E res \in Responses :
          /\ log' = Append(log, Event("update_stocks", res, Head(queue)))
          /\ IF res # "ok"
             THEN Raise(res) /\ UNCHANGED queue
             ELSE /\ queue' = Tail(queue)
                  /\ pc' = IF Tail(queue) = <<>> THEN "upload_prices"
                           ELSE "update_stocks"
                  /\ UNCHANGED outcome
    /\ UNCHANGED <<recon_vars, driver, target, server, ostatki, product_list,
                   cursor, stocks, prices>>
    /\ UNCHANGED aux_vars

\* upload_prices(watch_remnants, campaign_id, market_token) in market.main:
\* upload_prices is an `async def` and the call is not awaited, so it only
\* builds a coroutine object and no statement of upload_prices runs; main()
\* goes on to the next target, or returns after the last
MarketUploadPrices ==
    /\ driver = "market" /\ pc = "upload_prices"
    /\ IF target < Len(Targets(driver))
       THEN /\ target' = target + 1
            /\ product_list' = <<>>
            /\ cursor' = 0
            /\ pc' = "get_offer_ids"
            /\ UNCHANGED outcome
       ELSE Return /\ UNCHANGED <<target, product_list, cursor>>
    /\ UNCHANGED <<recon_vars, driver, server, ostatki, stocks, prices,
                   queue, log>>
    /\ UNCHANGED aux_vars

MainNext ==
    \/ SellerGetProductList
    \/ DownloadStock
    \/ SellerCreateStocks
    \/ SellerUpdateStocks
    \/ SellerCreatePrices
    \/ SellerUpdatePrice
    \/ MarketGetProductList
    \/ MarketCreateStocks
    \/ MarketUpdateStocks
    \/ MarketUploadPrices

\* ids and rows of the driver runs
MainIds == {"A", "B"}
MainRows == {Row(k, q, DefaultPrice) : k \in MainIds, q \in {DefaultQty, <<"x">>}}
\* get_offer_ids does not deduplicate: a catalog may list an id twice
MainCatalogs == SeqsUpTo(MainIds, MaxCatalog)

MainInit ==
    /\ driver \in {"seller", "market"}
    /\ pc = IF driver = "seller" THEN "get_offer_ids" ELSE "download_stock"
    /\ target = 1
    /\ server \in [1..Len(Targets(driver)) -> MainCatalogs]
    /\ ostatki \in SeqsUpTo(MainRows, MaxFeed)
    /\ watch_remnants = <<>>
    /\ offer_ids = <<>>
    /\ ret = NoRet
    /\ product_list = <<>>
    /\ cursor = 0
    /\ stocks = <<>>
    /\ prices = <<>>
    /\ queue = <<>>
    /\ log = <<>>
    /\ outcome = "running"
    /\ AuxIdle

\* one run of seller.main or of market.main, on every feed and every catalog
\* within the bounds, every request succeeding or failing
SpecMain == MainInit /\ [][MainNext]_vars

-----------------------------------------------------------------------------
(* get_offer_ids against a scripted catalog server *)

\* what a scripted server answers with: the entries of the page, the total it
\* reports, the continuation token (0 when it gives none)
PageEntries == {<<>>, <<"A">>}
ScriptedPages ==
    [entries : PageEntries, total : 0..MaxTotal, next : {0, 1}]

Request(res, response) ==
    [kind |-> "get_product_list", status |-> res, response |-> response]

\* one turn of the loop of seller.get_offer_ids; the lines after the loop when
\* it breaks
SellerGetOfferIdsTurn ==
    /\ driver = "none" /\ pc = "seller.get_offer_ids" /\ pages # <<>>
    /\ \E res \in Responses :
          LET some_prod ==
                  [items |-> [k \in 1..Len(Head(pages).entries) |->
                                 [offer_id |-> Head(pages).entries[k]]],
                   total |-> Head(pages).total,
                   last_id |-> Head(pages).next]
              extended == product_list \o some_prod.items
          IN  /\ log' = Append(log, Request(res, Head(pages)))
              /\ pages' = Tail(pages)
              /\ IF res # "ok"
                 THEN /\ pc' = "raised"
                      /\ ret' = [op |-> "seller.get_offer_ids",
                                 status |-> res, value |-> <<>>]
                      /\ UNCHANGED <<product_list, cursor, offer_ids>>
                 ELSE /\ product_list' = extended
                      /\ cursor' = some_prod.last_id
                      /\ IF seller_loop_ends(some_prod.total, extended)
                         THEN /\ offer_ids' =
                                    [k \in 1..Len(extended) |->
                                        extended[k].offer_id]
                              /\ ret' = [op |-> "seller.get_offer_ids",
                                         status |-> "ok",
                                         value |-> offer_ids']
                              /\ pc' = "returned"
                         ELSE UNCHANGED <<offer_ids, ret, pc>>
    /\ UNCHANGED <<watch_remnants, driver, target, server, ostatki, stocks,
                   prices, queue, outcome, prev>>

\* one turn of the loop of market.get_offer_ids; the lines after the loop when
\* it breaks
MarketGetOfferIdsTurn ==
    /\ driver = "none" /\ pc = "market.get_offer_ids" /\ pages # <<>>
    /\ \E res \in Responses :
          LET some_prod ==
                  [offerMappingEntries |->
                      [k \in 1..Len(Head(pages).entries) |->
                          [offer |-> [shopSku |-> Head(pages).entries[k]]]],
                   paging |-> [nextPageToken |-> Head(pages).next]]
              extended == product_list \o some_prod.offerMappingEntries
              page == some_prod.paging.nextPageToken
          IN  /\ log' = Append(log, Request(res, Head(pages)))
              /\ pages' = Tail(pages)
              /\ IF res # "ok"
                 THEN /\ pc' = "raised"
                      /\ ret' = [op |-> "market.get_offer_ids",
                                 status |-> res, value |-> <<>>]
                      /\ UNCHANGED <<product_list, cursor, offer_ids>>
                 ELSE /\ product_list' = extended
                      /\ cursor' = page
                      /\ IF market_loop_ends(page)
                         THEN /\ offer_ids' =
                                    [k \in 1..Len(extended) |->
                                        extended[k].offer.shopSku]
                              /\ ret' = [op |-> "market.get_offer_ids",
                                         status |-> "ok",
                                         value |-> offer_ids']
                              /\ pc' = "returned"
                         ELSE UNCHANGED <<offer_ids, ret, pc>>
    /\ UNCHANGED <<watch_remnants, driver, target, server, ostatki, stocks,
                   prices, queue, outcome, prev>>

EnumNext ==
    \/ SellerGetOfferIdsTurn
    \/ MarketGetOfferIdsTurn

EnumInit ==
    /\ pc \in {"seller.get_offer_ids", "market.get_offer_ids"}
    /\ pages \in SeqsUpTo(ScriptedPages, MaxPages) \ {<<>>}
    /\ product_list = <<>>
    /\ cursor = 0
    /\ watch_remnants = <<>>
    /\ offer_ids = <<>>
    /\ ret = NoRet
    /\ driver = "none"
    /\ target = 0
    /\ server = <<>>
    /\ ostatki = <<>>
    /\ stocks = <<>>
    /\ prices = <<>>
    /\ queue = <<>>
    /\ log = <<>>
    /\ outcome = "none"
    /\ prev = NoRet

\* get_offer_ids of either module against every scripted server within the
\* bounds, every request succeeding or failing
SpecEnum == EnumInit /\ [][EnumNext]_vars

-----------------------------------------------------------------------------
(* A second call after create_stocks *)

\* create_stocks once more on the same feed, with a copy of the list the
\* first call drained instead of a fresh copy of the catalog
AgainSellerCreateStocksOnDrainedList ==
    LET r == seller_create_stocks(watch_remnants, offer_ids) IN
    /\ driver = "none" /\ prev = NoRet
    /\ ret.op = "seller.create_stocks"
    /\ prev' = ret
    /\ ret' = [op |-> "seller.create_stocks", feed |-> watch_remnants,
               ids_before |-> offer_ids, status |-> r.status,
               value |-> r.value]
    /\ offer_ids' = r.offer_ids
    /\ UNCHANGED <<watch_remnants, main_vars, pages>>

\* seller.create_stocks once more on the same feed, with a fresh copy of the
\* catalog the first call was given
AgainSellerCreateStocks ==
    LET fresh == ret.ids_before
        r == seller_create_stocks(watch_remnants, fresh)
    IN  /\ driver = "none" /\ prev = NoRet
        /\ ret.op = "seller.create_stocks"
        /\ prev' = ret
        /\ ret' = [op |-> "seller.create_stocks", feed |-> watch_remnants,
                   ids_before |-> fresh, status |-> r.status,
                   value |-> r.value]
        /\ offer_ids' = r.offer_ids
        /\ UNCHANGED <<watch_remnants, main_vars, pages>>

\* market.create_stocks once more on the same feed, with a fresh copy of the
\* catalog the first call was given; the call reads the clock again
AgainMarketCreateStocks ==
    \E w \in Warehouses, d \in Dates :
        LET fresh == ret.ids_before
            r == market_create_stocks(watch_remnants, fresh, w, d)
        IN  /\ driver = "none" /\ prev = NoRet
            /\ ret.op = "market.create_stocks"
            /\ prev' = ret
            /\ ret' = [op |-> "market.create_stocks", feed |-> watch_remnants,
                       ids_before |-> fresh, status |-> r.status,
                       value |-> r.value]
            /\ offer_ids' = r.offer_ids
            /\ UNCHANGED <<watch_remnants, main_vars, pages>>

\* seller.create_prices on the list object seller.create_stocks was given
ThenSellerCreatePrices ==
    LET r == seller_create_prices(watch_remnants, offer_ids) IN
    /\ driver = "none" /\ prev = NoRet
    /\ ret.op = "seller.create_stocks"
    /\ prev' = ret
    /\ ret' = Returned("seller.create_prices", r)
    /\ offer_ids' = r.offer_ids
    /\ UNCHANGED <<watch_remnants, main_vars, pages>>

\* market.create_prices on the list object market.create_stocks was given
ThenMarketCreatePrices ==
    LET r == market_create_prices(watch_remnants, offer_ids) IN
    /\ driver = "none" /\ prev = NoRet
    /\ ret.op = "market.create_stocks"
    /\ prev' = ret
    /\ ret' = Returned("market.create_prices", r)
    /\ offer_ids' = r.offer_ids
    /\ UNCHANGED <<watch_remnants, main_vars, pages>>

TwiceNext ==
    \/ ret = NoRet /\ CallSellerCreateStocks
    \/ ret = NoRet /\ CallMarketCreateStocks
    \/ AgainSellerCreateStocks
    \/ AgainMarketCreateStocks
    \/ ThenSellerCreatePrices
    \/ ThenMarketCreatePrices

TwiceRows == {r \in FeedRows : r.Kod \in {"A", "B"}}

TwiceInit ==
    /\ watch_remnants \in SeqsUpTo(TwiceRows, MaxFeed)
    /\ offer_ids \in SeqsUpTo({"A", "B"}, MaxCatalog)
    /\ ret = NoRet
    /\ MainIdle
    /\ AuxIdle

\* create_stocks, then a second call on the same feed: create_stocks with a
\* fresh copy of the catalog, or create_prices with the drained list
SpecTwice == TwiceInit /\ [][TwiceNext]_vars

-----------------------------------------------------------------------------
(* upload_stocks of seller.py and of market.py *)

RECURSIVE seller_get_offer_ids_cursors(_, _, _)
\* the last_id values seller.get_offer_ids requests pages with, from last_id
\* on, against a server that holds `catalog`
seller_get_offer_ids_cursors(catalog, last_id, product_list_) ==
    LET some_prod == OzonPage(catalog, last_id)
        extended == product_list_ \o some_prod.items
    IN  IF seller_loop_ends(some_prod.total, extended) THEN <<last_id>>
        ELSE <<last_id>> \o
             seller_get_offer_ids_cursors(catalog, some_prod.last_id, extended)

RECURSIVE market_get_offer_ids_cursors(_, _)
\* the page tokens market.get_offer_ids requests pages with, from page on
market_get_offer_ids_cursors(catalog, page) ==
    LET some_prod == YandexPage(catalog, page)
        next == some_prod.paging.nextPageToken
    IN  IF market_loop_ends(next) THEN <<page>>
        ELSE <<page>> \o market_get_offer_ids_cursors(catalog, next)

\* the requests of a call answered in turn: the first n succeed, the next one,
\* if there is one, fails with exc
Answered(kinds, datas, n, exc) ==
    [k \in 1..Min(n + 1, Len(kinds)) |->
        [kind |-> kinds[k], status |-> IF k <= n THEN "ok" ELSE exc,
         data |-> datas[k]]]

\* `filter(lambda stock: (stock.get("stock") != 0), stocks)`
seller_not_empty(stocks_) ==
    LET Test(stock) == stock.stock # 0 IN SelectSeq(stocks_, Test)

\* await seller.upload_stocks(watch_remnants, ...) against a server that holds
\* server[1]: the catalog requests, create_stocks, one request per batch of
\* divide(stocks, 100), the return; a request that fails ends the call
CallSellerUploadStocks ==
    /\ driver = "none" /\ pc = "upload_stocks"
    /\ \E exc \in Failures, n \in 0..(MaxCatalog + MaxCatalog + 1) :
          LET cursors == seller_get_offer_ids_cursors(server[1], 0, <<>>)
              created == seller_create_stocks(watch_remnants, server[1])
              batches == IF created.status = "ok"
                         THEN divide(created.value, SellerStockBatch).value
                         ELSE <<>>
              kinds == [k \in 1..Len(cursors) |-> "get_product_list"]
                       \o [k \in 1..Len(batches) |-> "update_stocks"]
              datas == cursors \o batches
          IN  /\ n <= Len(kinds)
              /\ log' = Answered(kinds, datas, n, exc)
              /\ offer_ids' = IF n < Len(cursors) THEN <<>>
                              ELSE created.offer_ids
              /\ ret' = [op |-> "seller.upload_stocks",
                         status |->
                             IF n < Len(cursors) THEN exc
                             ELSE IF created.status # "ok" THEN created.status
                             ELSE IF n < Len(kinds) THEN exc
                             ELSE "ok",
                         value |->
                             IF created.status = "ok" /\ n = Len(kinds)
                             THEN [type |-> "tuple",
                                   not_empty |-> seller_not_empty(created.value),
                                   stocks |-> created.value]
                             ELSE [type |-> "none"]]
    /\ UNCHANGED <<watch_remnants, driver, pc, target, server, ostatki,
                   product_list, cursor, stocks, prices, queue, outcome>>
    /\ UNCHANGED aux_vars

\* await market.upload_stocks(watch_remnants, ...) against a server that holds
\* server[1]: the catalog requests and create_stocks; the function ends there
\* and returns None
CallMarketUploadStocks ==
    /\ driver = "none" /\ pc = "upload_stocks"
    /\ \E exc \in Failures, n \in 0..MaxCatalog,
          w \in Warehouses, d \in Dates :
          LET cursors == market_get_offer_ids_cursors(server[1], 0)
              created == market_create_stocks(watch_remnants, server[1], w, d)
              kinds == [k \in 1..Len(cursors) |-> "get_product_list"]
          IN  /\ n <= Len(kinds)
              /\ log' = Answered(kinds, cursors, n, exc)
              /\ offer_ids' = IF n < Len(cursors) THEN <<>>
                              ELSE created.offer_ids
              /\ ret' = [op |-> "market.upload_stocks",
                         status |->
                             IF n < Len(cursors) THEN exc
                             ELSE created.status,
                         value |-> [type |-> "none"]]
    /\ UNCHANGED <<watch_remnants, driver, pc, target, server, ostatki,
                   product_list, cursor, stocks, prices, queue, outcome>>
    /\ UNCHANGED aux_vars

UploadNext ==
    \/ CallSellerUploadStocks
    \/ CallMarketUploadStocks

UploadInit ==
    /\ watch_remnants \in SeqsUpTo(MainRows, MaxFeed)
    /\ server \in [1..1 -> MainCatalogs]
    /\ pc = "upload_stocks"
    /\ offer_ids = <<>>
    /\ ret = NoRet
    /\ driver = "none"
    /\ target = 0
    /\ ostatki = <<>>
    /\ product_list = <<>>
    /\ cursor = 0
    /\ stocks = <<>>
    /\ prices = <<>>
    /\ queue = <<>>
    /\ log = <<>>
    /\ outcome = "none"
    /\ AuxIdle

\* upload_stocks of either module on every feed and catalog within the
\* bounds, every request succeeding or failing
SpecUpload == UploadInit /\ [][UploadNext]_vars

-----------------------------------------------------------------------------
(* Vocabulary of the properties *)

StocksCall == ret.op \in {"seller.create_stocks", "market.create_stocks"}
PricesCall == ret.op \in {"seller.create_prices", "market.create_prices"}

\* offer id and quantity of a stock record, offer id and price of a price
\* record, in either marketplace's shape
StockId(r) == IF "offer_id" \in DOMAIN r THEN r.offer_id ELSE r.sku
StockQty(r) == IF "stock" \in DOMAIN r THEN r.stock ELSE r.items[1].count
PriceId(r) == IF "offer_id" \in DOMAIN r THEN r.offer_id ELSE r.id
PriceOf(r) == IF "offer_id" \in DOMAIN r THEN r.price ELSE r.price.value

Elems(s) == {s[i] : i \in 1..Len(s)}
DupFree(s) == \A i, j \in 1..Len(s) : s[i] = s[j] => i = j
FeedIds(feed) == {feed[i].Kod : i \in 1..Len(feed)}
Indices(n) == [i \in 1..n |-> i]

RECURSIVE Pow10(_)
Pow10(k) == IF k = 0 THEN 1 ELSE 10 * Pow10(k - 1)

RECURSIVE SumOver(_, _, _)
\* the decimal value of the digits of t at the positions P
SumOver(t, P, all) ==
    IF P = {} THEN 0
    ELSE LET p == CHOOSE x \in P : TRUE IN
         DigitVal(t[p]) * Pow10(Cardinality({q \in all : q > p}))
         + SumOver(t, P \ {p}, all)

DecimalAt(t, P) == SumOver(t, P, P)

\* an integer literal: optional blanks around an optional sign and decimal
\* digits, single underscores allowed between digits
NonBlank(t) == {i \in 1..Len(t) : t[i] # " "}
LitLo(t) == CHOOSE i \in NonBlank(t) : \A j \in NonBlank(t) : i <= j
LitHi(t) == CHOOSE i \in NonBlank(t) : \A j \in NonBlank(t) : j <= i
LitStart(t) == IF t[LitLo(t)] \in {"+", "-"} THEN LitLo(t) + 1 ELSE LitLo(t)
IsIntLiteral(t) ==
    /\ NonBlank(t) # {}
    /\ LitStart(t) <= LitHi(t)
    /\ t[LitStart(t)] \in DigitChars
    /\ t[LitHi(t)] \in DigitChars
    /\ \A p \in LitStart(t)..LitHi(t) : t[p] \in DigitChars \cup {"_"}
    /\ \A p \in LitStart(t)..(LitHi(t) - 1) : ~(t[p] = "_" /\ t[p + 1] = "_")
LiteralValue(t) ==
    LET v == DecimalAt(t, {p \in LitStart(t)..LitHi(t) : t[p] \in DigitChars})
    IN  IF t[LitLo(t)] = "-" THEN 0 - v ELSE v

WellFormedQty(t) == t = GT10 \/ t = ONE \/ IsIntLiteral(t)

-----------------------------------------------------------------------------
(* Properties of create_stocks and create_prices *)

\* C1: on a duplicate-free catalog C and a feed whose matched quantity tokens
\* are well-formed, create_stocks returns, and returns exactly |C| records with
\* pairwise distinct offer ids whose set is C as it was before the call.
C1_StockCoverage ==
    (StocksCall /\ DupFree(ret.ids_before)
       /\ \A i \in 1..Len(ret.feed) :
             ret.feed[i].Kod \in Elems(ret.ids_before)
                => WellFormedQty(ret.feed[i].Kolichestvo))
    => /\ ret.status = "ok"
       /\ Len(ret.value) = Len(ret.ids_before)
       /\ \A i, j \in 1..Len(ret.value) :
             StockId(ret.value[i]) = StockId(ret.value[j]) => i = j
       /\ {StockId(ret.value[i]) : i \in 1..Len(ret.value)}
             = Elems(ret.ids_before)

\* a two-id catalog, a feed that repeats one of its ids, the call returned
C1_Witness ==
    /\ StocksCall /\ ret.status = "ok"
    /\ DupFree(ret.ids_before) /\ Len(ret.ids_before) = 2
    /\ Len(ret.feed) = 2
    /\ ret.feed[1].Kod = ret.feed[2].Kod
    /\ ret.feed[1].Kod \in Elems(ret.ids_before)

\* C4: every offer id create_prices returns is the id of a feed record and a
\* member of the catalog list.
C4_PriceIdsSubset ==
    PricesCall =>
        \A i \in 1..Len(ret.value) :
            /\ PriceId(ret.value[i]) \in FeedIds(ret.feed)
            /\ PriceId(ret.value[i]) \in Elems(ret.ids_before)

\* a price list is returned while the feed names an id outside the catalog and
\* the catalog holds an id outside the feed
C4_Witness ==
    /\ PricesCall /\ ret.status = "ok" /\ ret.value # <<>>
    /\ FeedIds(ret.feed) \ Elems(ret.ids_before) # {}
    /\ Elems(ret.ids_before) \ FeedIds(ret.feed) # {}

\* C8 (as claimed): every stock record of a completed create_stocks call has
\* a quantity >= 0.
C8_QuantityNonNegative ==
    (StocksCall /\ ret.status = "ok") =>
        \A i \in 1..Len(ret.value) : StockQty(ret.value[i]) >= 0

\* feed rows that produce a record: row i matches when fewer earlier rows carry
\* its id than the catalog holds entries of it
Matched(feed, ids, i) ==
    Cardinality({j \in 1..(i - 1) : feed[j].Kod = feed[i].Kod})
        < Cardinality({k \in 1..Len(ids) : ids[k] = feed[i].Kod})

\* catalog entries left for the zero fill: entry k stays when more entries of
\* its id precede or equal it than the feed has rows of that id
Residual(feed, ids, k) ==
    Cardinality({m \in 1..k : ids[m] = ids[k]})
        > Cardinality({j \in 1..Len(feed) : feed[j].Kod = ids[k]})

MatchedRows(feed, ids) ==
    LET Test(i) == Matched(feed, ids, i) IN SelectSeq(Indices(Len(feed)), Test)

ResidualEntries(feed, ids) ==
    LET Test(k) == Residual(feed, ids, k) IN SelectSeq(Indices(Len(ids)), Test)

\* C10: the list create_stocks returns holds first one record per matched feed
\* row, in feed order, then one zero-quantity record per catalog entry no row
\* matched, in catalog order.
C10_MatchedFirstOrder ==
    (StocksCall /\ ret.status = "ok") =>
        LET m == MatchedRows(ret.feed, ret.ids_before)
            z == ResidualEntries(ret.feed, ret.ids_before)
        IN  /\ Len(ret.value) = Len(m) + Len(z)
            /\ \A i \in 1..Len(m) :
                   StockId(ret.value[i]) = ret.feed[m[i]].Kod
            /\ \A k \in 1..Len(z) :
                   /\ StockId(ret.value[Len(m) + k]) = ret.ids_before[z[k]]
                   /\ StockQty(ret.value[Len(m) + k]) = 0

\* the only feed row matches the second catalog id, so the result starts with
\* the second id and zero-fills the first after it
C10_Witness ==
    /\ StocksCall /\ ret.status = "ok"
    /\ Len(ret.ids_before) = 2 /\ DupFree(ret.ids_before)
    /\ Len(ret.feed) = 1 /\ ret.feed[1].Kod = ret.ids_before[2]
    /\ Len(ret.value) = 2
    /\ StockId(ret.value[1]) = ret.ids_before[2]
    /\ StockId(ret.value[2]) = ret.ids_before[1]

-----------------------------------------------------------------------------
(* Properties of the token rules *)

OneRowMatched == Len(ret.feed) = 1 /\ ret.feed[1].Kod \in Elems(ret.ids_before)

PriceDigits(t) ==
    {p \in 1..Len(t) : t[p] \in DigitChars /\ \A q \in 1..p : t[q] # "."}

\* the integer a price field stands for, when it stands for one: an int, or a
\* non-empty string of digits
DenotesInt(price, v) ==
    \/ price.type = "int" /\ price.int = v
    \/ /\ price.type = "str" /\ price.str # <<>>
       /\ \A p \in 1..Len(price.str) : price.str[p] \in DigitChars
       /\ DecimalAt(price.str, 1..Len(price.str)) = v

\* C9 (as claimed): create_prices raises no error on a matched row, and the
\* price it emits is the integer of the digits before the first ".", zero when
\* there is none.
C9_PriceRule ==
    (PricesCall /\ OneRowMatched) =>
        /\ ret.status = "ok"
        /\ DenotesInt(PriceOf(ret.value[1]),
                      DecimalAt(ret.feed[1].Tsena, PriceDigits(ret.feed[1].Tsena)))

-----------------------------------------------------------------------------
(* Properties of divide *)

RECURSIVE Flatten(_)
Flatten(ss) == IF ss = <<>> THEN <<>> ELSE Head(ss) \o Flatten(Tail(ss))

\* C5: for n > 0 divide completes, its slices concatenate to the input, every
\* slice but the last has length n, the last has length 1..n, and an empty
\* list yields no slice.
C5_DivideChunks ==
    (ret.op = "divide" /\ ret.n > 0) =>
        /\ ret.status = "ok"
        /\ Flatten(ret.value) = ret.lst
        /\ \A k \in 1..(Len(ret.value) - 1) : Len(ret.value[k]) = ret.n
        /\ ret.value # <<>> =>
              Len(ret.value[Len(ret.value)]) \in 1..ret.n
        /\ ret.lst = <<>> => ret.value = <<>>

\* three items in slices of two: a full slice and a shorter last one
C5_Witness ==
    /\ ret.op = "divide" /\ ret.n = 2 /\ Len(ret.lst) = 3
    /\ Len(ret.value) = 2 /\ Len(ret.value[2]) = 1

\* C6 (as claimed): for n <= 0 divide fails with an error and yields no slice.
C6_DivideRejectsNonPositive ==
    (ret.op = "divide" /\ ret.n <= 0) =>
        ret.status # "ok" /\ ret.value = <<>>

-----------------------------------------------------------------------------
(* Properties of the sync drivers *)

\* the catalog get_offer_ids enumerates for a target
CatalogOf(t) ==
    server[CHOOSE k \in 1..Len(Targets(driver)) : Targets(driver)[k] = t]

\* what main() did for a target, in order, and its events of one kind
EventsOf(t) == LET Test(e) == e.target = t IN SelectSeq(log, Test)
EventsOfKind(t, kind) ==
    LET Test(e) == e.target = t /\ e.kind = kind IN SelectSeq(log, Test)
Payloads(es) == [k \in 1..Len(es) |-> es[k].data]

\* C2 (as claimed): price reconciliation of a target is handed the full
\* catalog enumerated for that target, and after a run in which no call
\* failed every id in both the feed and the target's catalog has a PriceUpdate
\* in a submitted price batch.
C2_PricesUseFullCatalog ==
    /\ \A i \in 1..Len(log) :
          log[i].kind = "create_prices"
              => log[i].data.offer_ids = CatalogOf(log[i].target)
    /\ outcome = "done" =>
          \A k \in 1..Len(Targets(driver)) :
              \A id \in FeedIds(watch_remnants) \cap Elems(server[k]) :
                  \E i \in 1..Len(log) :
                      /\ log[i].kind = "update_price"
                      /\ log[i].target = Targets(driver)[k]
                      /\ log[i].status = "ok"
                      /\ \E j \in 1..Len(log[i].data) :
                            PriceId(log[i].data[j]) = id

PhaseOf(kind) ==
    CASE kind = "get_product_list" -> 1
      [] kind = "create_stocks" -> 2
      [] kind = "update_stocks" -> 3
      [] kind = "create_prices" -> 4
      [] kind = "update_price" -> 5

RECURSIVE EventsInTargetOrder(_)
EventsInTargetOrder(ts) ==
    IF ts = <<>> THEN <<>>
    ELSE EventsOf(Head(ts)) \o EventsInTargetOrder(Tail(ts))

\* C3 (as claimed): in a run in which no call failed, main() works through
\* its targets one after the other, and for each target enumerates the
\* catalog, reconciles stocks, submits every stock batch in list order,
\* reconciles prices and submits every price batch in list order.
C3_StepsInOrder ==
    outcome = "done" =>
        /\ log = EventsInTargetOrder(Targets(driver))
        /\ \A k \in 1..Len(Targets(driver)) :
              LET t == Targets(driver)[k]
                  es == EventsOf(t)
                  cs == EventsOfKind(t, "create_stocks")
                  cp == EventsOfKind(t, "create_prices")
              IN  /\ \A i \in 1..(Len(es) - 1) :
                         PhaseOf(es[i].kind) <= PhaseOf(es[i + 1].kind)
                  /\ EventsOfKind(t, "get_product_list") # <<>>
                  /\ Len(cs) = 1
                  /\ Flatten(Payloads(EventsOfKind(t, "update_stocks")))
                        = cs[1].data.result
                  /\ Len(cp) = 1
                  /\ Flatten(Payloads(EventsOfKind(t, "update_price")))
                        = cp[1].data.result

-----------------------------------------------------------------------------
(* Duplicate feed ids *)

\* the first feed row that carries an id
FirstRow(feed, id) ==
    CHOOSE i \in 1..Len(feed) :
        /\ feed[i].Kod = id
        /\ \A j \in 1..(i - 1) : feed[j].Kod # id

\* the quantity a well-formed token stands for
ExpectedQty(t) ==
    IF t = GT10 THEN 100 ELSE IF t = ONE THEN 0 ELSE LiteralValue(t)

\* C11: on a duplicate-free catalog only the first feed row of an id counts:
\* create_stocks fails exactly when the first row of some catalog id carries a
\* malformed token, whatever later rows of that id carry, and when it returns
\* each catalog id of the feed has one record, with the quantity of its first
\* row.
C11_FirstWins ==
    (StocksCall /\ DupFree(ret.ids_before)) =>
        LET hit == FeedIds(ret.feed) \cap Elems(ret.ids_before)
            tok(id) == ret.feed[FirstRow(ret.feed, id)].Kolichestvo
        IN  /\ ret.status = "ok" <=> \A id \in hit : WellFormedQty(tok(id))
            /\ ret.status = "ok" =>
                  \A id \in hit :
                      /\ Cardinality({k \in 1..Len(ret.value) :
                                         StockId(ret.value[k]) = id}) = 1
                      /\ \A k \in 1..Len(ret.value) :
                             StockId(ret.value[k]) = id
                                 => StockQty(ret.value[k]) = ExpectedQty(tok(id))

\* the feed carries one catalog id twice, "15" first and the malformed "x"
\* second: create_stocks returned, with quantity 15 for that id
C11_Witness ==
    /\ StocksCall /\ DupFree(ret.ids_before) /\ ret.status = "ok"
    /\ Len(ret.feed) = 2
    /\ ret.feed[1].Kod = ret.feed[2].Kod
    /\ ret.feed[1].Kod \in Elems(ret.ids_before)
    /\ ret.feed[1].Kolichestvo = <<"1", "5">>
    /\ ret.feed[2].Kolichestvo = <<"x">>
    /\ \E k \in 1..Len(ret.value) :
          /\ StockId(ret.value[k]) = ret.feed[1].Kod
          /\ StockQty(ret.value[k]) = 15

-----------------------------------------------------------------------------
(* Properties of get_offer_ids *)

RECURSIVE CountUpTo(_)
\* the entries accumulated with the first k responses
CountUpTo(k) ==
    IF k = 0 THEN 0 ELSE CountUpTo(k - 1) + Len(log[k].response.entries)

\* C12 (as claimed): once a page arrived whose reported total equals the
\* accumulated entry count, or that carries no continuation token,
\* get_offer_ids has returned and that page is the last one it requested.
C12_StopsOnEitherSignal ==
    pc \in {"seller.get_offer_ids", "market.get_offer_ids", "returned", "raised"} =>
        \A k \in 1..Len(log) :
            (/\ log[k].status = "ok"
             /\ \/ log[k].response.total = CountUpTo(k)
                \/ log[k].response.next = 0)
                => k = Len(log) /\ pc = "returned"

-----------------------------------------------------------------------------
(* Failures in the sync drivers *)

RequestKinds == {"get_product_list", "update_stocks", "update_price"}
FailedRequest(e) == e.kind \in RequestKinds /\ e.status # "ok"

\* C13: main() only ever adds requests to the ones it has issued, and after
\* a catalog read or a batch submission failed for a target it issues no
\* further request for that target: no retry, no compensation, the batches
\* accepted before the failure stay as they were.
C13_NoRequestAfterFailure ==
    [][/\ Len(log') >= Len(log)
       /\ \A i \in 1..Len(log) :
             /\ log'[i] = log[i]
             /\ FailedRequest(log[i]) =>
                   \A j \in (i + 1)..Len(log') :
                       log'[j].target # log[i].target]_vars

\* main() ended on a failed stock batch that follows an accepted one
C13_Witness ==
    /\ pc = "end" /\ Len(log) >= 2
    /\ log[Len(log)].kind = "update_stocks"
    /\ log[Len(log)].status \in Failures
    /\ log[Len(log) - 1].kind = "update_stocks"
    /\ log[Len(log) - 1].status = "ok"
    /\ log[Len(log) - 1].target = log[Len(log)].target

\* C14 (as claimed): market.main processes FBS and DBS independently: when
\* the run has ended the catalog of DBS has been requested, as in a run where
\* FBS went through, even if the processing of FBS failed; and nothing is
\* requested for FBS once DBS is being processed.
C14_TargetsIndependent ==
    driver = "market" =>
        /\ (/\ pc = "end"
            /\ \E i \in 1..Len(log) :
                  log[i].target = "FBS" /\ log[i].status # "ok")
              => /\ EventsOf("DBS") # <<>>
                 /\ EventsOf("DBS")[1].kind = "get_product_list"
        /\ \A i, j \in 1..Len(log) :
              (i < j /\ log[i].target = "DBS") => log[j].target # "FBS"

-----------------------------------------------------------------------------
(* Properties of a second call *)

SecondStocksCall == StocksCall /\ prev # NoRet

Undated(r) ==
    [sku |-> r.sku, warehouseId |-> r.warehouseId,
     items |-> [k \in 1..Len(r.items) |->
                   [count |-> r.items[k].count, type |-> r.items[k].type]]]

Unmatched(feed, ids) ==
    LET Test(id) == id \notin FeedIds(feed) IN SelectSeq(ids, Test)

\* C18: after create_stocks returned on a duplicate-free catalog the caller's
\* list holds the catalog ids no feed row carries, in their original order,
\* and create_prices called next with that list returns the empty list.
C18_DrainedListGivesNoPrices ==
    /\ (StocksCall /\ ret.status = "ok" /\ DupFree(ret.ids_before)) =>
          offer_ids = Unmatched(ret.feed, ret.ids_before)
    /\ (/\ PricesCall /\ prev # NoRet
        /\ prev.status = "ok" /\ DupFree(prev.ids_before)) =>
          /\ ret.feed = prev.feed
          /\ ret.ids_before = Unmatched(prev.feed, prev.ids_before)
          /\ ret.status = "ok"
          /\ ret.value = <<>>

\* seller.create_stocks matched one of two catalog ids, and
\* seller.create_prices, given the list with the other id, returned no price
\* although the feed carries a catalog id
C18_Witness ==
    /\ ret.op = "seller.create_prices" /\ prev # NoRet
    /\ prev.status = "ok" /\ DupFree(prev.ids_before)
    /\ Len(prev.ids_before) = 2
    /\ FeedIds(prev.feed) \cap Elems(prev.ids_before) # {}
    /\ Len(ret.ids_before) = 1
    /\ ret.value = <<>>

-----------------------------------------------------------------------------
(* What create_prices leaves of its arguments *)

\* C17: after create_prices the caller's catalog list holds the same ids in
\* the same order as before the call and the feed holds the same records,
\* whether the call returned or failed on a price token.
C17_CreatePricesKeepsArguments ==
    PricesCall =>
        /\ offer_ids = ret.ids_before
        /\ watch_remnants = ret.feed

\* market.create_prices failed on an empty price token of a matched row and
\* left the two catalog ids in place
C17_Witness ==
    /\ ret.op = "market.create_prices" /\ ret.status = "ValueError"
    /\ Len(ret.ids_before) = 2
    /\ offer_ids = ret.ids_before
    /\ \E i \in 1..Len(ret.feed) :
          /\ ret.feed[i].Kod \in Elems(ret.ids_before)
          /\ ret.feed[i].Tsena = <<>>

\* a feed row the catalog matches carries a malformed quantity token
MalformedMatched(feed, ids) ==
    \E i \in 1..Len(feed) :
        Matched(feed, ids, i) /\ ~WellFormedQty(feed[i].Kolichestvo)

\* C19: when the feed holds a row that the catalog of a target matches and
\* whose quantity token is malformed, main() sends no stock batch and no
\* price batch for that target; the failure of create_stocks is the last
\* thing main() does, so what was sent for an earlier target stays sent.
C19_NoBatchOfFailedReconciliation ==
    driver \in {"seller", "market"} =>
        /\ \A k \in 1..Len(Targets(driver)) :
              MalformedMatched(ostatki, server[k]) =>
                  \A i \in 1..Len(log) :
                      log[i].target = Targets(driver)[k]
                          => log[i].kind \notin {"update_stocks", "update_price"}
        /\ \A i \in 1..Len(log) :
              (log[i].kind = "create_stocks" /\ log[i].status # "ok")
                  => /\ i = Len(log) /\ pc = "end"
                     /\ MalformedMatched(ostatki, CatalogOf(log[i].target))

\* market.main sent a stock batch for FBS, then create_stocks failed for DBS
\* on a malformed token and nothing was sent for DBS
C19_Witness ==
    /\ driver = "market" /\ pc = "end"
    /\ MalformedMatched(ostatki, server[2])
    /\ \E i \in 1..Len(log) :
          /\ log[i].target = "FBS" /\ log[i].kind = "update_stocks"
          /\ log[i].status = "ok"
    /\ log[Len(log)].target = "DBS"
    /\ log[Len(log)].kind = "create_stocks"
    /\ log[Len(log)].status = "ValueError"
    /\ EventsOfKind("DBS", "update_stocks") = <<>>

-----------------------------------------------------------------------------
(* Properties of upload_stocks *)

UploadStocksCall == ret.op \in {"seller.upload_stocks", "market.upload_stocks"}

LogOfKind(kind) == LET Test(e) == e.kind = kind IN SelectSeq(log, Test)

\* C16 (as claimed): an upload_stocks call that ran to completion without
\* failure has requested the catalog, has built one stock record per catalog
\* id, has submitted the stock list batch by batch in order, and returns the
\* pair of the records with a non-zero quantity and of the full list; for
\* market.upload_stocks as for seller.upload_stocks.
C16_UploadStocksSubmitsAndReturns ==
    (UploadStocksCall /\ ret.status = "ok") =>
        /\ \A i \in 1..Len(log) : log[i].status = "ok"
        /\ LogOfKind("get_product_list") # <<>>
        /\ ret.value.type = "tuple"
        /\ Len(ret.value.stocks) = Len(server[1])
        /\ Flatten(Payloads(LogOfKind("update_stocks"))) = ret.value.stocks
        /\ LET Test(r) == StockQty(r) # 0 IN
           ret.value.not_empty = SelectSeq(ret.value.stocks, Test)

=============================================================================
